---- MODULE Spec2Model ----
(***************************************************************************)
(* Model of the Delta DVP10SX gateway: the device interface DeltaPLC       *)
(* (src/plc_lib.py) and the Flask request handlers that drive it           *)
(* (src/plc_api.py).                                                       *)
(*                                                                         *)
(* The interface state is the pair (self.client, self.connected).  The     *)
(* serial transport (pymodbus) is the environment: every connect attempt   *)
(* and every transaction has an outcome the program does not control.      *)
(* A library operation is an operator from the interface state to the SET  *)
(* of its possible results, one per combination of transport outcomes; a   *)
(* request handler is one action that picks one of them.                   *)
(***************************************************************************)
EXTENDS Integers, Sequences, FiniteSets

VARIABLES
    connected,  \* DeltaPLC.connected
    client,     \* DeltaPLC.client: "none" (None), or the state of the handle it names
    leaked,     \* handles still open that self.client no longer names
    last,       \* what the last request did: its calls, their events, its response
    conc        \* concurrent write_m_coil calls in progress, and the coil they write

vars == <<connected, client, leaked, last, conc>>

-----------------------------------------------------------------------------
(* Bounds and inputs *)

MaxLeaked == 2

\* Logical offsets a client puts in the URL (<int:address> accepts any n >= 0).
Addrs == {0, 100, 768}

\* What the device holds while one request is served: every coil/input reads
\* bit, every register reads word.
DevViews == {[bit |-> FALSE, word |-> 0], [bit |-> TRUE, word |-> 65535]}

ConnOutcomes == {"ok", "fail", "raise"}
TxOutcomes == {"ok", "error", "raise"}

-----------------------------------------------------------------------------
(* Address map *)

D_OFFSET == 4096
M_OFFSET == 2048
X_OFFSET == 1024
Y_OFFSET == 1280

\* The Modbus table (address space) each transaction kind works on.
Table(fn) ==
    CASE fn \in {"read_holding_registers", "write_register"} -> "holding"
      [] fn \in {"read_coils", "write_coils", "write_coil"} -> "coil"
      [] fn = "read_discrete_inputs" -> "discrete"
      [] OTHER -> "none"

-----------------------------------------------------------------------------
(* Python helpers *)

Min(a, b) == IF a <= b THEN a ELSE b

\* Faulty variant of Take, without the slice: C2 must not survive it.
Take_whole(seq, n) == seq

\* seq[:n] for n >= 0
Take(seq, n) == SubSeq(seq, 1, Min(n, Len(seq)))

\* A coil/input response carries whole bytes: pymodbus unpacks 8 bits per byte.
Pad8(count) == ((count + 7) \div 8) * 8

BitsOf(dv, count) == [i \in 1..Pad8(count) |-> IF i <= count THEN dv.bit ELSE FALSE]
RegistersOf(dv, count) == [i \in 1..count |-> dv.word]

\* The interface state as one value.
St(c, k, l) == [connected |-> c, client |-> k, leaked |-> l]

\* A result of a library call: the state it leaves, its return value
\* (ok = True / a list; ~ok = False / None; data = the list), whether it
\* raised to its caller, and the transport events it caused, in order.
Res(s, ok, data, raised, ev) ==
    [s |-> s, ok |-> ok, data |-> data, raised |-> raised, ev |-> ev]

ConnEv(o) == [fn |-> "connect", addr |-> 0, n |-> 0, out |-> o, data |-> <<>>]
TxEv(fn, addr, n, o, data) == [fn |-> fn, addr |-> addr, n |-> n, out |-> o, data |-> data]

-----------------------------------------------------------------------------
(* DeltaPLC *)

\* self.client = ModbusSerialClient(...) drops the only reference the program
\* holds to the previous handle without closing it.  Whether the runtime
\* finalises (closes) it is outside the program: both outcomes are possible.
\* (The constructor itself is taken to succeed on the fixed configuration.)
DropOld(s) ==
    IF s.client = "open"
    THEN {s.leaked} \cup (IF s.leaked < MaxLeaked THEN {s.leaked + 1} ELSE {})
    ELSE {s.leaked}

connect(s) ==
    { Res(St(o = "ok", IF o = "ok" THEN "open" ELSE "closed", l),
          o = "ok", <<>>, FALSE, <<ConnEv(o)>>)
      : o \in ConnOutcomes, l \in DropOld(s) }

disconnect(s) ==
    IF s.client = "none"
    THEN {Res(s, FALSE, <<>>, FALSE, <<>>)}
    ELSE { IF o = "raise"
           THEN Res(s, FALSE, <<>>, TRUE, <<TxEv("close", 0, 0, o, <<>>)>>)
           ELSE Res(St(FALSE, "closed", s.leaked), FALSE, <<>>, FALSE,
                    <<TxEv("close", 0, 0, o, <<>>)>>)
           : o \in {"ok", "raise"} }

\* Faulty variant of ensure_connected, reconnecting on every call: C6 must not
\* survive it.
ensure_connected_always(s) == connect(s)

ensure_connected(s) ==
    IF ~s.connected THEN connect(s) ELSE {Res(s, TRUE, <<>>, FALSE, <<>>)}

read_d_registers(s, dv, start, count) ==
    UNION { IF ~e.ok
            THEN {Res(e.s, FALSE, <<>>, FALSE, e.ev)}
            ELSE { LET regs == RegistersOf(dv, count)
                       ev == Append(e.ev, TxEv("read_holding_registers", D_OFFSET + start,
                                              count, o, IF o = "ok" THEN regs ELSE <<>>))
                   IN  IF o = "ok" THEN Res(e.s, TRUE, regs, FALSE, ev)
                       ELSE Res(e.s, FALSE, <<>>, FALSE, ev)
                   : o \in TxOutcomes }
            : e \in ensure_connected(s) }

\* read_m_coils, read_x_inputs and read_y_outputs have one body up to the
\* transaction kind and the region base.
ReadBits(s, dv, fn, base, start, count) ==
    UNION { IF ~e.ok
            THEN {Res(e.s, FALSE, <<>>, FALSE, e.ev)}
            ELSE { LET bits == BitsOf(dv, count)
                       ev == Append(e.ev, TxEv(fn, base + start, count, o,
                                              IF o = "ok" THEN bits ELSE <<>>))
                   IN  IF o = "ok" THEN Res(e.s, TRUE, Take(bits, count), FALSE, ev)
                       ELSE Res(e.s, FALSE, <<>>, FALSE, ev)
                   : o \in TxOutcomes }
            : e \in ensure_connected(s) }

\* Faulty variant of read_m_coils, reading at the Y base: C11 must not survive it.
read_m_coils_atY(s, dv, start, count) ==
    ReadBits(s, dv, "read_coils", Y_OFFSET, start, count)

read_m_coils(s, dv, start, count) == ReadBits(s, dv, "read_coils", M_OFFSET, start, count)

read_x_inputs(s, dv, start, count) ==
    ReadBits(s, dv, "read_discrete_inputs", X_OFFSET, start, count)

read_y_outputs(s, dv, start, count) == ReadBits(s, dv, "read_coils", Y_OFFSET, start, count)

\* Faulty variant of write_d_register, marking the interface disconnected when
\* the transaction fails: C14 must not survive it.
write_d_register_dropsOnError(s, address, value) ==
    UNION { IF ~e.ok
            THEN {Res(e.s, FALSE, <<>>, FALSE, e.ev)}
            ELSE { Res(IF o = "ok" THEN e.s ELSE St(FALSE, e.s.client, e.s.leaked),
                       o = "ok", <<>>, FALSE,
                       Append(e.ev, TxEv("write_register", D_OFFSET + address, 1, o, <<value>>)))
                   : o \in TxOutcomes }
            : e \in ensure_connected(s) }

write_d_register(s, address, value) ==
    UNION { IF ~e.ok
            THEN {Res(e.s, FALSE, <<>>, FALSE, e.ev)}
            ELSE { Res(e.s, o = "ok", <<>>, FALSE,
                       Append(e.ev, TxEv("write_register", D_OFFSET + address, 1, o, <<value>>)))
                   : o \in TxOutcomes }
            : e \in ensure_connected(s) }

\* Faulty variant of write_m_coil_alt, reporting success whatever the
\* response: C13 must not survive it.
write_m_coil_alt_optimistic(s, address, state) ==
    { Res(s, TRUE, <<>>, FALSE,
          <<TxEv("write_coil", M_OFFSET + address, 1, o, <<state>>)>>)
      : o \in TxOutcomes }

write_m_coil_alt(s, address, state) ==
    { Res(s, o = "ok", <<>>, FALSE,
          <<TxEv("write_coil", M_OFFSET + address, 1, o, <<state>>)>>)
      : o \in TxOutcomes }

\* Faulty variant of Verified, accepting any read-back: C1 must not survive it.
Verified_anyReadBack(v, state) == v.ok /\ Len(v.data) > 0

\* if verify and verify[0] == state
Verified(v, state) == v.ok /\ Len(v.data) > 0 /\ v.data[1] = state

write_m_coil(s, dv, address, state) ==
    UNION { IF ~e.ok
            THEN {Res(e.s, FALSE, <<>>, FALSE, e.ev)}
            ELSE UNION {
                LET ev1 == Append(e.ev, TxEv("write_coils", M_OFFSET + address, 1, o, <<state>>))
                IN  IF o # "ok"
                    THEN {Res(e.s, FALSE, <<>>, FALSE, ev1)}
                    ELSE UNION {
                        IF Verified(v, state)
                        THEN {Res(v.s, TRUE, <<>>, FALSE, ev1 \o v.ev)}
                        ELSE { Res(a.s, a.ok, <<>>, FALSE, ev1 \o v.ev \o a.ev)
                               : a \in write_m_coil_alt(v.s, address, state) }
                        : v \in read_m_coils(e.s, dv, address, 1) }
                : o \in TxOutcomes }
            : e \in ensure_connected(s) }

write_y_output(s, address, state) ==
    UNION { IF ~e.ok
            THEN {Res(e.s, FALSE, <<>>, FALSE, e.ev)}
            ELSE { Res(e.s, o = "ok", <<>>, FALSE,
                       Append(e.ev, TxEv("write_coil", Y_OFFSET + address, 1, o, <<state>>)))
                   : o \in TxOutcomes }
            : e \in ensure_connected(s) }

\* A dict keyed by f'{letter}{i}' for i = 0 .. len-1, as enumerate() builds it.
Enumerated(values) == [i \in 0..(Len(values) - 1) |-> values[i + 1]]
EmptyDict == [i \in {} |-> FALSE]

\* if d_values: (a list is truthy when it is not empty; None is not)
Truthy(r) == r.ok /\ Len(r.data) > 0

\* Faulty variant of Snapshot, returning None when a read failed: C4 must not
\* survive it.
Snapshot_allOrNothing(s, rd, rm, rx, ry) ==
    [s |-> ry.s, ok |-> rd.ok /\ rm.ok /\ rx.ok /\ ry.ok, raised |-> FALSE,
     ev |-> rd.ev \o rm.ev \o rx.ev \o ry.ev,
     reads |-> [d |-> rd.ok, m |-> rm.ok, x |-> rx.ok, y |-> ry.ok],
     data |-> [timestamp |-> "now",
               connected |-> s.connected,
               d_registers |-> IF Truthy(rd) THEN Enumerated(rd.data) ELSE EmptyDict,
               m_coils |-> IF Truthy(rm) THEN Enumerated(rm.data) ELSE EmptyDict,
               x_inputs |-> IF Truthy(rx) THEN Enumerated(rx.data) ELSE EmptyDict,
               y_outputs |-> IF Truthy(ry) THEN Enumerated(ry.data) ELSE EmptyDict]]

Snapshot(s, rd, rm, rx, ry) ==
    [s |-> ry.s, ok |-> TRUE, raised |-> FALSE,
     ev |-> rd.ev \o rm.ev \o rx.ev \o ry.ev,
     reads |-> [d |-> rd.ok, m |-> rm.ok, x |-> rx.ok, y |-> ry.ok],
     data |-> [timestamp |-> "now",
               connected |-> s.connected,
               d_registers |-> IF Truthy(rd) THEN Enumerated(rd.data) ELSE EmptyDict,
               m_coils |-> IF Truthy(rm) THEN Enumerated(rm.data) ELSE EmptyDict,
               x_inputs |-> IF Truthy(rx) THEN Enumerated(rx.data) ELSE EmptyDict,
               y_outputs |-> IF Truthy(ry) THEN Enumerated(ry.data) ELSE EmptyDict]]

get_all_status(s, dv) ==
    UNION { UNION { UNION { { Snapshot(s, rd, rm, rx, ry)
                              : ry \in read_y_outputs(rx.s, dv, 0, 8) }
                            : rx \in read_x_inputs(rm.s, dv, 0, 8) }
                    : rm \in read_m_coils(rd.s, dv, 0, 10) }
            : rd \in read_d_registers(s, dv, 0, 10) }

-----------------------------------------------------------------------------
(* Request handlers (plc_api.py).  A handler's result: the state it leaves   *)
(* plc in, the library calls it made, the HTTP status and the JSON body.     *)

Call(op, a, b, pre, r) ==
    [op |-> op, a |-> a, b |-> b, pre |-> pre,
     ok |-> r.ok, data |-> r.data, raised |-> r.raised, ev |-> r.ev]

\* The status routes keep a shorter record of each call: of an event its
\* transaction and whether it succeeded.
Brief(ev) ==
    [i \in 1..Len(ev) |->
        [fn |-> ev[i].fn, addr |-> ev[i].addr, n |-> ev[i].n, ok |-> ev[i].out = "ok"]]

BriefCall(op, a, b, pre, r) ==
    [op |-> op, a |-> a, b |-> b, pre |-> pre,
     ok |-> r.ok, data |-> r.data, raised |-> r.raised, ev |-> Brief(r.ev)]

H(pre, s, route, method, arg, calls, status, body) ==
    [pre |-> pre, s |-> s, route |-> route, method |-> method, arg |-> arg,
     calls |-> calls, status |-> status, body |-> body]

\* The region letters of f'D{address}' and the like are kept as pairs.
Label(letter, address) == <<letter, address>>

health_check(s) ==
    {H(s, s, "/health", "GET", <<>>, <<>>, 200,
       [status |-> "running", plc_connected |-> s.connected, api_version |-> "1.0.0"])}

d_register_GET(s, dv, address) ==
    { LET calls == <<Call("read_d_registers", address, 1, s, r)>>
      IN  IF r.ok
          THEN IF Len(r.data) > 0
               THEN H(s, r.s, "/api/d", "GET", <<address>>, calls, 200,
                      [success |-> TRUE, address |-> Label("D", address), value |-> r.data[1]])
               ELSE H(s, r.s, "/api/d", "GET", <<address>>, calls, 500, [error |-> "exception"])
          ELSE H(s, r.s, "/api/d", "GET", <<address>>, calls, 500,
                 [error |-> "Failed to read", connected |-> r.s.connected])
      : r \in read_d_registers(s, dv, address, 1) }

\* Faulty variant of ValueInRange, without the upper bound: C3 must not survive it.
ValueInRange_noUpperBound(value) == 0 <= value

\* if not (0 <= value <= 65535)
ValueInRange(value) == 0 <= value /\ value <= 65535

\* value = int(data.get('value', 0)); a payload value is an integer or a
\* string that int() rejects with ValueError.
d_register_POST(s, address, value) ==
    IF value.t = "str"
    THEN {H(s, s, "/api/d", "POST", <<address, value>>, <<>>, 400, [error |-> "Invalid value"])}
    ELSE IF ~ValueInRange(value.v)
    THEN {H(s, s, "/api/d", "POST", <<address, value>>, <<>>, 400,
            [error |-> "Value must be 0-65535"])}
    ELSE { LET calls == <<Call("write_d_register", address, value.v, s, r)>>
           IN  IF r.ok
               THEN H(s, r.s, "/api/d", "POST", <<address, value>>, calls, 200,
                      [success |-> TRUE, address |-> Label("D", address), value |-> value.v])
               ELSE H(s, r.s, "/api/d", "POST", <<address, value>>, calls, 500,
                      [error |-> "Failed to write", connected |-> r.s.connected])
           : r \in write_d_register(s, address, value.v) }

MaxRange == 100

d_register_range(s, dv, start, count) ==
    IF count > MaxRange
    THEN {H(s, s, "/api/d/range", "GET", <<start, count>>, <<>>, 400,
            [error |-> "Maximum 100 registers per request"])}
    ELSE { LET calls == <<Call("read_d_registers", start, count, s, r)>>
           IN  IF r.ok
               THEN H(s, r.s, "/api/d/range", "GET", <<start, count>>, calls, 200,
                      [success |-> TRUE, start |-> start, count |-> count,
                       registers |-> [a \in {start + i : i \in 0..(Len(r.data) - 1)}
                                      |-> r.data[a - start + 1]]])
               ELSE H(s, r.s, "/api/d/range", "GET", <<start, count>>, calls, 500,
                      [error |-> "Failed to read registers"])
           : r \in read_d_registers(s, dv, start, count) }

\* The single-bit GET routes of M, Y and X differ in the read they call.
BitGet(s, route, letter, op, address, results) ==
    { LET calls == <<Call(op, address, 1, s, r)>>
      IN  IF r.ok
          THEN IF Len(r.data) > 0
               THEN H(s, r.s, route, "GET", <<address>>, calls, 200,
                      [success |-> TRUE, address |-> Label(letter, address), state |-> r.data[1]])
               ELSE H(s, r.s, route, "GET", <<address>>, calls, 500, [error |-> "exception"])
          ELSE H(s, r.s, route, "GET", <<address>>, calls, 500,
                 [error |-> "Failed to read", connected |-> r.s.connected])
      : r \in results }

\* The single-bit POST routes of M and Y differ in the write they call.
BitPost(s, route, letter, op, address, state, results) ==
    { LET calls == <<Call(op, address, state, s, r)>>
      IN  IF r.ok
          THEN H(s, r.s, route, "POST", <<address, state>>, calls, 200,
                 [success |-> TRUE, address |-> Label(letter, address), state |-> state])
          ELSE H(s, r.s, route, "POST", <<address, state>>, calls, 500,
                 [error |-> "Failed to write", connected |-> r.s.connected])
      : r \in results }

m_coil_GET(s, dv, address) ==
    BitGet(s, "/api/m", "M", "read_m_coils", address, read_m_coils(s, dv, address, 1))

m_coil_POST(s, dv, address, state) ==
    BitPost(s, "/api/m", "M", "write_m_coil", address, state,
            write_m_coil(s, dv, address, state))

y_output_GET(s, dv, address) ==
    BitGet(s, "/api/y", "Y", "read_y_outputs", address, read_y_outputs(s, dv, address, 1))

y_output_POST(s, address, state) ==
    BitPost(s, "/api/y", "Y", "write_y_output", address, state,
            write_y_output(s, address, state))

x_input(s, dv, address) ==
    BitGet(s, "/api/x", "X", "read_x_inputs", address, read_x_inputs(s, dv, address, 1))

api_connect(s) ==
    { LET calls == <<Call("connect", 0, 0, s, r)>>
      IN  IF r.ok
          THEN H(s, r.s, "/api/connect", "POST", <<>>, calls, 200,
                 [success |-> TRUE, message |-> "Connected to PLC"])
          ELSE H(s, r.s, "/api/connect", "POST", <<>>, calls, 500,
                 [success |-> FALSE, error |-> "Failed to connect"])
      : r \in connect(s) }

api_disconnect(s) ==
    { LET calls == <<Call("disconnect", 0, 0, s, r)>>
      IN  IF r.raised
          THEN H(s, r.s, "/api/disconnect", "POST", <<>>, calls, 500, [error |-> "exception"])
          ELSE H(s, r.s, "/api/disconnect", "POST", <<>>, calls, 200,
                 [success |-> TRUE, message |-> "Disconnected from PLC"])
      : r \in disconnect(s) }

api_reconnect(s) ==
    UNION { IF d.raised
            THEN {H(s, d.s, "/api/reconnect", "POST", <<>>,
                    <<Call("disconnect", 0, 0, s, d)>>, 500, [error |-> "exception"])}
            ELSE { LET calls == <<Call("disconnect", 0, 0, s, d), Call("connect", 0, 0, d.s, r)>>
                   IN  IF r.ok
                       THEN H(s, r.s, "/api/reconnect", "POST", <<>>, calls, 200,
                              [success |-> TRUE, message |-> "Reconnected to PLC"])
                       ELSE H(s, r.s, "/api/reconnect", "POST", <<>>, calls, 500,
                              [success |-> FALSE, error |-> "Failed to reconnect"])
                   : r \in connect(d.s) }
            : d \in disconnect(s) }

SnapCall(pre, r) ==
    [op |-> "get_all_status", a |-> 0, b |-> 0, pre |-> pre,
     ok |-> r.ok, data |-> r.data, raised |-> r.raised, ev |-> Brief(r.ev),
     reads |-> r.reads]

\* status['m_coils']['M100'] = bool(m100_103[0]) ... ['M103'] = bool(m100_103[3])
WithM100(m_coils, m100_103) ==
    [k \in DOMAIN m_coils \cup 100..103 |->
        IF k \in 100..103 THEN m100_103[k - 99] ELSE m_coils[k]]

\* get_all_status followed by the read of M100..M103, as both status routes do.
\* A dict with keys is truthy, so `if status` holds whenever status is not None.
StatusRead(s, dv) ==
    UNION { IF ~st.ok
            THEN {[s |-> st.s, calls |-> <<SnapCall(s, st)>>, status |-> st, exc |-> FALSE]}
            ELSE { LET calls == <<SnapCall(s, st), BriefCall("read_m_coils", 100, 4, st.s, m)>>
                   IN  IF ~Truthy(m)
                       THEN [s |-> m.s, calls |-> calls, status |-> st, exc |-> FALSE]
                       ELSE IF Len(m.data) < 4
                       THEN [s |-> m.s, calls |-> calls, status |-> st, exc |-> TRUE]
                       ELSE [s |-> m.s, calls |-> calls, exc |-> FALSE,
                             status |-> [st EXCEPT !.data.m_coils = WithM100(@, m.data)]]
                   : m \in read_m_coils(st.s, dv, 100, 4) }
            : st \in get_all_status(s, dv) }

get_status(s, dv) ==
    { IF r.exc
      THEN H(s, r.s, "/api/status", "GET", <<>>, r.calls, 500, [error |-> "exception"])
      ELSE IF r.status.ok
      THEN H(s, r.s, "/api/status", "GET", <<>>, r.calls, 200, r.status.data)
      ELSE H(s, r.s, "/api/status", "GET", <<>>, r.calls, 500,
             [error |-> "Failed to read PLC", connected |-> r.s.connected])
      : r \in StatusRead(s, dv) }

\* [k for k, v in d.items() if v]
KeysOn(d) == {k \in DOMAIN d : d[k]}

get_status_summary(s, dv) ==
    { IF r.exc
      THEN H(s, r.s, "/api/status/summary", "GET", <<>>, r.calls, 500, [error |-> "exception"])
      ELSE IF r.status.ok
      THEN H(s, r.s, "/api/status/summary", "GET", <<>>, r.calls, 200,
             [timestamp |-> r.status.data.timestamp,
              connected |-> r.status.data.connected,
              m_coils_on |-> KeysOn(r.status.data.m_coils),
              y_outputs_on |-> KeysOn(r.status.data.y_outputs),
              x_inputs_on |-> KeysOn(r.status.data.x_inputs),
              d_registers_nonzero |->
                  LET d == r.status.data.d_registers
                  IN  [k \in {j \in DOMAIN d : d[j] # 0} |-> d[k]]])
      ELSE H(s, r.s, "/api/status/summary", "GET", <<>>, r.calls, 500,
             [error |-> "Failed to read PLC"])
      : r \in StatusRead(s, dv) }

-----------------------------------------------------------------------------
(* Bulk writes *)

MaxBulk == 2

\* Keys of the JSON object, as digit strings: "0", "00" and "3".
BulkKeys == {<<0>>, <<0, 0>>, <<3>>}

\* A JSON object: distinct keys, in the order the client wrote them.
Payloads ==
    UNION { { p \in [1..n -> BulkKeys \X BOOLEAN] :
                \A i, j \in 1..n : i # j => p[i][1] # p[j][1] }
            : n \in 0..MaxBulk }

\* int(address_str) on a string of decimal digits
RECURSIVE ParseInt(_)
ParseInt(digits) ==
    IF digits = <<>> THEN 0
    ELSE 10 * ParseInt(SubSeq(digits, 1, Len(digits) - 1)) + digits[Len(digits)]

\* results[key] = success
Put(d, k, v) == [x \in DOMAIN d \cup {k} |-> IF x = k THEN v ELSE d[x]]

\* The bulk routes keep of each write its arguments and its return value.
BulkCall(op, a, b, pre, r) ==
    [op |-> op, a |-> a, b |-> b, pre |-> pre, ok |-> r.ok, raised |-> r.raised]

BulkStep(acc, letter, op, address, state, pre, r) ==
    [s |-> r.s,
     results |-> Put(acc.results, Label(letter, address), r.ok),
     success_count |-> IF r.ok THEN acc.success_count + 1 ELSE acc.success_count,
     calls |-> Append(acc.calls, BulkCall(op, address, state, pre, r))]

BulkStart(s) == [s |-> s, results |-> EmptyDict, success_count |-> 0, calls |-> <<>>]

BulkResponse(s, acc, route, coils) ==
    H(s, acc.s, route, "POST", <<coils>>, acc.calls, 200,
      [success |-> acc.success_count = Len(coils),
       total |-> Len(coils),
       succeeded |-> acc.success_count,
       results |-> acc.results])

RECURSIVE BulkLoopM(_, _, _)
BulkLoopM(acc, dv, items) ==
    IF items = <<>> THEN {acc}
    ELSE LET address == ParseInt(Head(items)[1])
             state == Head(items)[2]
         IN  UNION { BulkLoopM(next, dv, Tail(items))
                     : next \in { BulkStep(acc, "M", "write_m_coil", address, state, acc.s, r)
                                  : r \in write_m_coil(acc.s, dv, address, state) } }

bulk_write_m(s, dv, coils) ==
    { BulkResponse(s, acc, "/api/bulk/m", coils) : acc \in BulkLoopM(BulkStart(s), dv, coils) }

RECURSIVE BulkLoopY(_, _)
BulkLoopY(acc, items) ==
    IF items = <<>> THEN {acc}
    ELSE LET address == ParseInt(Head(items)[1])
             state == Head(items)[2]
         IN  UNION { BulkLoopY(next, Tail(items))
                     : next \in { BulkStep(acc, "Y", "write_y_output", address, state, acc.s, r)
                                  : r \in write_y_output(acc.s, address, state) } }

bulk_write_y(s, outputs) ==
    { BulkResponse(s, acc, "/api/bulk/y", outputs) : acc \in BulkLoopY(BulkStart(s), outputs) }

-----------------------------------------------------------------------------
(* The server: plc = DeltaPLC() at import, then one request at a time.       *)

Cur == St(connected, client, leaked)

\* Request threads (app.run(threaded=True)) that may be inside write_m_coil at
\* the same time.
NumHandlers == 2
Handlers == 1..NumHandlers

\* A thread's place in write_m_coil and its locals: the requested state, the
\* list the verifying read returned (None: ok = FALSE), the writes issued and
\* the return value.
Idle ==
    [pc |-> "idle", state |-> FALSE, wrote |-> FALSE, verify |-> [ok |-> FALSE, bit |-> FALSE],
     fallbacks |-> 0, ret |-> FALSE]

Init ==
    /\ connected = FALSE
    /\ client = "none"
    /\ leaked = 0
    /\ last = H(St(FALSE, "none", 0), St(FALSE, "none", 0), "init", "", <<>>, <<>>, 0,
                [started |-> TRUE])
    /\ conc = [coil |-> FALSE, h |-> [i \in Handlers |-> Idle]]

Do(h) ==
    /\ connected' = h.s.connected
    /\ client' = h.s.client
    /\ leaked' = h.s.leaked
    /\ last' = h
    /\ UNCHANGED conc

\* Inputs of the routes
DValues == {[t |-> "int", v |-> -1], [t |-> "int", v |-> 0], [t |-> "int", v |-> 65535],
            [t |-> "int", v |-> 65536], [t |-> "str", v |-> 0]}
RangeStarts == {0, 100}
RangeCounts == {1, 3, 100, 101}

Health == \E h \in health_check(Cur) : Do(h)
DRegisterGet == \E a \in Addrs, dv \in DevViews : \E h \in d_register_GET(Cur, dv, a) : Do(h)
DRegisterPost == \E a \in Addrs, v \in DValues : \E h \in d_register_POST(Cur, a, v) : Do(h)
DRegisterRange ==
    \E st \in RangeStarts, n \in RangeCounts, dv \in DevViews :
        \E h \in d_register_range(Cur, dv, st, n) : Do(h)
MCoilGet == \E a \in Addrs, dv \in DevViews : \E h \in m_coil_GET(Cur, dv, a) : Do(h)
MCoilPost ==
    \E a \in Addrs, dv \in DevViews, b \in BOOLEAN : \E h \in m_coil_POST(Cur, dv, a, b) : Do(h)
YOutputGet == \E a \in Addrs, dv \in DevViews : \E h \in y_output_GET(Cur, dv, a) : Do(h)
YOutputPost == \E a \in Addrs, b \in BOOLEAN : \E h \in y_output_POST(Cur, a, b) : Do(h)
XInput == \E a \in Addrs, dv \in DevViews : \E h \in x_input(Cur, dv, a) : Do(h)
Connect == \E h \in api_connect(Cur) : Do(h)
Disconnect == \E h \in api_disconnect(Cur) : Do(h)
Reconnect == \E h \in api_reconnect(Cur) : Do(h)
GetStatus == \E dv \in DevViews : \E h \in get_status(Cur, dv) : Do(h)
GetStatusSummary == \E dv \in DevViews : \E h \in get_status_summary(Cur, dv) : Do(h)
BulkWriteM == \E p \in Payloads, dv \in DevViews : \E h \in bulk_write_m(Cur, dv, p) : Do(h)
BulkWriteY == \E p \in Payloads : \E h \in bulk_write_y(Cur, p) : Do(h)

-----------------------------------------------------------------------------
(* write_m_coil of one offset run by concurrent threads, one transaction per *)
(* step, against a device that acknowledges and applies every write and      *)
(* answers every read with the coil it holds.                                *)

SetState(s) ==
    /\ connected' = s.connected
    /\ client' = s.client
    /\ leaked' = s.leaked

\* POST /api/m/<address>: state = bool(...); write_m_coil opens with ensure_connected.
CBegin(t) ==
    /\ conc.h[t].pc = "idle"
    /\ \E b \in BOOLEAN : \E e \in ensure_connected(Cur) :
          /\ SetState(e.s)
          /\ conc' = [conc EXCEPT !.h[t] =
                         IF e.ok THEN [Idle EXCEPT !.pc = "write", !.state = b]
                         ELSE [Idle EXCEPT !.pc = "done", !.state = b]]
    /\ UNCHANGED last

\* self.client.write_coils(...), acknowledged; then time.sleep(0.05)
CWriteCoils(t) ==
    /\ conc.h[t].pc = "write"
    /\ conc' = [conc EXCEPT !.coil = conc.h[t].state,
                            !.h[t].wrote = TRUE, !.h[t].pc = "verify"]
    /\ UNCHANGED <<connected, client, leaked, last>>

\* verify = self.read_m_coils(address, 1); if verify and verify[0] == state
CVerify(t) ==
    /\ conc.h[t].pc = "verify"
    /\ \E e \in ensure_connected(Cur) :
          /\ SetState(e.s)
          /\ LET v == [ok |-> e.ok, bit |-> e.ok /\ conc.coil]
              IN  conc' = [conc EXCEPT
                             !.h[t].verify = v,
                             !.h[t].ret = v.ok /\ v.bit = conc.h[t].state,
                             !.h[t].pc = IF v.ok /\ v.bit = conc.h[t].state
                                         THEN "done" ELSE "fallback"]
    /\ UNCHANGED last

\* return self._write_m_coil_alt(address, state): write_coil, acknowledged
CFallback(t) ==
    /\ conc.h[t].pc = "fallback"
    /\ conc' = [conc EXCEPT !.coil = conc.h[t].state,
                            !.h[t].fallbacks = 1, !.h[t].ret = TRUE, !.h[t].pc = "done"]
    /\ UNCHANGED <<connected, client, leaked, last>>

\* The route answers and the thread ends.
CReturn(t) ==
    /\ conc.h[t].pc = "done"
    /\ conc' = [conc EXCEPT !.h[t] = Idle]
    /\ UNCHANGED <<connected, client, leaked, last>>

NextConc ==
    \E t \in Handlers :
        \/ CBegin(t)
        \/ CWriteCoils(t)
        \/ CVerify(t)
        \/ CFallback(t)
        \/ CReturn(t)

SpecConc == Init /\ [][NextConc]_vars

\* The single-address routes and the connection routes.
Next ==
    \/ Health
    \/ DRegisterGet
    \/ DRegisterPost
    \/ DRegisterRange
    \/ MCoilGet
    \/ MCoilPost
    \/ YOutputGet
    \/ YOutputPost
    \/ XInput
    \/ Connect
    \/ Disconnect
    \/ Reconnect

Spec == Init /\ [][Next]_vars

\* The status routes, with the connection routes that set their starting state.
NextStatus ==
    \/ GetStatus
    \/ GetStatusSummary
    \/ Connect
    \/ Disconnect

SpecStatus == Init /\ [][NextStatus]_vars

\* The bulk routes, likewise.
NextBulk ==
    \/ BulkWriteM
    \/ BulkWriteY
    \/ Connect
    \/ Disconnect

SpecBulk == Init /\ [][NextBulk]_vars

-----------------------------------------------------------------------------
(* Properties *)

\* The library calls of the last request, and the events of one kind in a call.
LastCalls == {last.calls[i] : i \in DOMAIN last.calls}
EventsOf(c, fn) == {i \in DOMAIN c.ev : c.ev[i].fn = fn}
Acked(c, fn) == \E i \in EventsOf(c, fn) : c.ev[i].out = "ok"

\* The verifying read of a write_m_coil call returned a list whose first bit is b.
ReadBack(c, b) ==
    \E i \in EventsOf(c, "read_coils") :
        c.ev[i].out = "ok" /\ Len(c.ev[i].data) > 0 /\ c.ev[i].data[1] = b

\* C1: a write_m_coil call issues at most one multi-coil write and at most one
\* single-coil fallback write; when its multi-coil write is acknowledged, a
\* verifying read that disagrees with the requested state is followed by exactly
\* one fallback write, and a verifying read that equals it by none, the call
\* returning success.
C1_FallbackExactlyOnce ==
    \A c \in LastCalls :
        c.op = "write_m_coil" =>
            /\ Cardinality(EventsOf(c, "write_coils")) <= 1
            /\ Cardinality(EventsOf(c, "write_coil")) <= 1
            /\ (Acked(c, "write_coils") /\ ReadBack(c, ~c.b))
                  => Cardinality(EventsOf(c, "write_coil")) = 1
            /\ (Acked(c, "write_coils") /\ ReadBack(c, c.b))
                  => (EventsOf(c, "write_coil") = {} /\ c.ok)

C1_Witness ==
    \E c \in LastCalls :
        /\ c.op = "write_m_coil"
        /\ c.a = 100 /\ c.b = TRUE
        /\ Acked(c, "write_coils")
        /\ ReadBack(c, FALSE)
        /\ Cardinality(EventsOf(c, "write_coil")) = 1

ReadOps == {"read_d_registers", "read_m_coils", "read_x_inputs", "read_y_outputs"}
WriteOps == {"write_d_register", "write_m_coil", "write_y_output"}

\* The counts the routes pass to the reads (1, and 4, 8, 10 for the status).
ReadCounts == {1, 4, 8, 10}

\* Every result in the set has count values when it is a list.
AllOfLength(results, count) == \A r \in results : r.ok => Len(r.data) = count

\* C2: a read that returns a list returns exactly count values: the reads the
\* last request made, and every read that could be made next.
C2_ReadsReturnCount ==
    /\ \A c \in LastCalls :
          (c.op \in ReadOps /\ c.ok) => Len(c.data) = c.b
    /\ \A start \in Addrs, count \in ReadCounts :
          \A dv \in DevViews :
              /\ AllOfLength(read_d_registers(Cur, dv, start, count), count)
              /\ AllOfLength(read_m_coils(Cur, dv, start, count), count)
              /\ AllOfLength(read_x_inputs(Cur, dv, start, count), count)
              /\ AllOfLength(read_y_outputs(Cur, dv, start, count), count)

\* A coil read whose response carried more bits than were asked for.
C2_Witness ==
    \E c \in LastCalls :
        /\ c.op = "read_m_coils" /\ c.ok
        /\ Len(c.data) = c.b
        /\ \E i \in DOMAIN c.ev : c.ev[i].out = "ok" /\ Len(c.ev[i].data) > c.b

\* The request carried input the facade must refuse.
Malformed ==
    \/ /\ last.route = "/api/d" /\ last.method = "POST"
       /\ last.arg[2].t = "int" /\ ~(0 <= last.arg[2].v /\ last.arg[2].v <= 65535)
    \/ /\ last.route = "/api/d/range"
       /\ last.arg[2] > 100

\* C3: a register value outside [0,65535] and a range count above 100 are
\* answered 400 with no library call made and the interface state unchanged.
C3_MalformedRejectedLocally ==
    Malformed => (last.status = 400 /\ last.calls = <<>> /\ last.s = last.pre)

C3_Witness ==
    /\ last.route = "/api/d" /\ last.method = "POST"
    /\ last.arg[2] = [t |-> "int", v |-> 65536]
    /\ last.status = 400
    /\ ~last.pre.connected

\* C6: every read and write call makes no connect attempt when the interface
\* is connected; when it is not, it makes exactly one, before any transaction,
\* and when that attempt fails it issues no transaction and reports failure.
C6_OneLazyConnect ==
    \A c \in LastCalls :
        c.op \in ReadOps \cup WriteOps =>
            IF c.pre.connected
            THEN EventsOf(c, "connect") = {}
            ELSE /\ EventsOf(c, "connect") = {1}
                 /\ c.ev[1].out # "ok" => (Len(c.ev) = 1 /\ ~c.ok)

\* A write_m_coil that connected lazily and went on to its fallback write.
C6_Witness ==
    \E c \in LastCalls :
        /\ c.op = "write_m_coil"
        /\ ~c.pre.connected
        /\ EventsOf(c, "connect") = {1}
        /\ EventsOf(c, "write_coil") # {}

\* C7 (as claimed): at most one transport handle is open at any time.
OpenHandles == leaked + (IF client = "open" THEN 1 ELSE 0)
C7_AtMostOneOpenHandle == OpenHandles <= 1

\* The wire location of a logical offset of a region: the Modbus table of the
\* region's transactions and the address in it.
Regions == {"D", "M", "X", "Y"}
RegionOf(op) ==
    CASE op \in {"read_d_registers", "write_d_register"} -> "D"
      [] op \in {"read_m_coils", "write_m_coil"} -> "M"
      [] op = "read_x_inputs" -> "X"
      [] op \in {"read_y_outputs", "write_y_output"} -> "Y"
      [] OTHER -> "none"
Wire(region, offset) ==
    CASE region = "D" -> <<"holding", D_OFFSET + offset>>
      [] region = "M" -> <<"coil", M_OFFSET + offset>>
      [] region = "X" -> <<"discrete", X_OFFSET + offset>>
      [] region = "Y" -> <<"coil", Y_OFFSET + offset>>

\* C8 (as claimed): every transaction of a call addresses base + offset of the
\* call's region, and no location that another region has at an accepted offset.
C8_RegionsDisjoint ==
    \A c \in LastCalls :
        c.op \in ReadOps \cup WriteOps =>
            \A i \in DOMAIN c.ev :
                c.ev[i].fn # "connect" =>
                    /\ <<Table(c.ev[i].fn), c.ev[i].addr>> = Wire(RegionOf(c.op), c.a)
                    /\ \A r \in Regions \ {RegionOf(c.op)} : \A o \in Addrs :
                           <<Table(c.ev[i].fn), c.ev[i].addr>> # Wire(r, o)

\* C9 (as claimed): every response of an /api route carries a success flag,
\* and every failure response an error message and the connection state.
ApiRoutes == {"/api/d", "/api/d/range", "/api/m", "/api/y", "/api/x",
              "/api/connect", "/api/disconnect", "/api/reconnect"}
C9_UniformResponses ==
    last.route \in ApiRoutes =>
        /\ "success" \in DOMAIN last.body
        /\ last.status = 500 =>
              ("error" \in DOMAIN last.body /\ "connected" \in DOMAIN last.body)

\* C10 (as claimed): no library call raises to its caller.
C10_NoCallRaises == \A c \in LastCalls : ~c.raised

\* The get_all_status calls of the last request.
SnapCalls == {c \in LastCalls : c.op = "get_all_status"}

\* A region of a snapshot carries the values of a read of n items.
Carries(dict, n) == DOMAIN dict = 0..(n - 1)

\* C4: get_all_status returns a snapshot whichever of its four reads fail; the
\* snapshot has a timestamp and a connection flag, the data of each region
\* whose read succeeded and no data for a region whose read failed; the status
\* route answers 200 with it.
C4_SnapshotSurvivesFailedReads ==
    /\ \A c \in SnapCalls :
          /\ c.ok /\ ~c.raised
          /\ {"timestamp", "connected"} \subseteq DOMAIN c.data
          /\ IF c.reads.d THEN Carries(c.data.d_registers, 10) ELSE c.data.d_registers = EmptyDict
          /\ IF c.reads.m THEN Carries(c.data.m_coils, 10) ELSE c.data.m_coils = EmptyDict
          /\ IF c.reads.x THEN Carries(c.data.x_inputs, 8) ELSE c.data.x_inputs = EmptyDict
          /\ IF c.reads.y THEN Carries(c.data.y_outputs, 8) ELSE c.data.y_outputs = EmptyDict
    /\ last.route = "/api/status" =>
          /\ last.status = 200
          /\ {"timestamp", "connected", "d_registers", "m_coils", "x_inputs", "y_outputs"}
                \subseteq DOMAIN last.body

\* A snapshot with two regions read and two regions failed.
C4_Witness ==
    /\ last.route = "/api/status" /\ last.status = 200
    /\ \E c \in SnapCalls :
          /\ c.reads = [d |-> FALSE, m |-> TRUE, x |-> FALSE, y |-> TRUE]
          /\ c.data.d_registers = EmptyDict
          /\ Carries(c.data.y_outputs, 8)

\* C5 (as claimed): a bulk response has one result per requested address;
\* succeeded is the number of successful writes and the number of true results;
\* total is the number of writes attempted; success holds exactly when every
\* write succeeded.
BulkRoutes == {"/api/bulk/m", "/api/bulk/y"}
C5_BulkCountsAgree ==
    last.route \in BulkRoutes =>
        LET coils == last.arg[1]
            letter == IF last.route = "/api/bulk/m" THEN "M" ELSE "Y"
            results == last.body.results
            okCalls == {i \in DOMAIN last.calls : last.calls[i].ok}
        IN  /\ DOMAIN results = {Label(letter, ParseInt(coils[i][1])) : i \in DOMAIN coils}
            /\ last.body.total = Len(last.calls)
            /\ last.body.succeeded = Cardinality(okCalls)
            /\ last.body.succeeded = Cardinality({k \in DOMAIN results : results[k]})
            /\ last.body.success <=> (okCalls = DOMAIN last.calls)

\* The transactions of a call of a status route, in order: kind, wire address, count.
IsTx(e) == e.fn # "connect"
TxOf(c) ==
    LET tx == SelectSeq(c.ev, IsTx)
    IN  [i \in 1..Len(tx) |-> <<tx[i].fn, tx[i].addr, tx[i].n>>]

IsSuffix(a, b) == Len(a) <= Len(b) /\ a = SubSeq(b, Len(b) - Len(a) + 1, Len(b))

\* The fixed prefixes of the four regions.
Prefixes ==
    << <<"read_holding_registers", D_OFFSET, 10>>, <<"read_coils", M_OFFSET, 10>>,
       <<"read_discrete_inputs", X_OFFSET, 8>>, <<"read_coils", Y_OFFSET, 8>> >>

StatusRoutes == {"/api/status", "/api/status/summary"}

\* The four values of the block read are what the status body reports for
\* M100..M103; a failed block read adds nothing.
BlockReported(blk) ==
    last.route = "/api/status" =>
        IF blk.ok
        THEN \A k \in 100..103 : last.body.m_coils[k] = blk.data[k - 99]
        ELSE DOMAIN last.body.m_coils \cap 100..103 = {}

\* The snapshot reads the prefixes: all four when it starts connected, and
\* otherwise those from the first read whose lazy connect succeeds.
PrefixesRead(snap) ==
    /\ IsSuffix(TxOf(snap), Prefixes)
    /\ snap.pre.connected => TxOf(snap) = Prefixes

\* C11 (as claimed): the status reads the four prefixes and a four-coil block
\* at offsets 100..103 of the Coils-B (Y) region, whose values it reports.
C11_BlockFromCoilsB ==
    last.route \in StatusRoutes =>
        LET snap == last.calls[1]
            blk == last.calls[2]
        IN  /\ PrefixesRead(snap)
            /\ \A i \in DOMAIN TxOf(blk) : TxOf(blk)[i] = <<"read_coils", Y_OFFSET + 100, 4>>
            /\ BlockReported(blk)

\* C11 (amended): the status reads the four prefixes and a four-coil block at
\* offsets 100..103 of the Coils-A (M) region; the route, not get_all_status,
\* reads the block, and reports its values as M100..M103 when the read succeeds.
C11_BlockFromCoilsA ==
    last.route \in StatusRoutes =>
        LET snap == last.calls[1]
            blk == last.calls[2]
        IN  /\ snap.op = "get_all_status" /\ blk.op = "read_m_coils"
            /\ PrefixesRead(snap)
            /\ \A i \in DOMAIN TxOf(blk) : TxOf(blk)[i] = <<"read_coils", M_OFFSET + 100, 4>>
            /\ blk.pre.connected => Len(TxOf(blk)) = 1
            /\ BlockReported(blk)

\* A status whose block read succeeded, with the device's coils set.
C11_Witness ==
    /\ last.route = "/api/status" /\ last.status = 200
    /\ TxOf(last.calls[1]) = Prefixes
    /\ TxOf(last.calls[2]) = << <<"read_coils", M_OFFSET + 100, 4>> >>
    /\ last.calls[2].ok
    /\ \A k \in 100..103 : last.body.m_coils[k]

\* The events of a write_m_coil call after its lazy connect, as kinds and outcomes.
Steps(c) ==
    LET tx == SelectSeq(c.ev, IsTx)
    IN  [i \in 1..Len(tx) |-> <<tx[i].fn, tx[i].out>>]

FailOutcomes == {"error", "raise"}

\* C13: write_m_coil returns success exactly when its multi-coil write was
\* acknowledged and either the verifying read returned the requested state or
\* the read disagreed or failed and the fallback write was acknowledged; no read
\* follows the fallback; a multi-coil write that errors or raises ends the call
\* as a failure with no read and no fallback.
C13_WriteVerifyFallback ==
    \A c \in LastCalls :
        c.op = "write_m_coil" =>
            LET st == Steps(c)
                multiAck == Len(st) >= 1 /\ st[1] = <<"write_coils", "ok">>
                readSame == ReadBack(c, c.b)
                fallbackAck == Acked(c, "write_coil")
            IN  /\ c.ok <=> (multiAck /\ (readSame \/ (~readSame /\ fallbackAck)))
                /\ \A i \in DOMAIN st : st[i][1] = "write_coil" => i = Len(st)
                /\ \A i \in DOMAIN st : st[i][1] = "read_coils" => i = 2
                /\ (Len(st) >= 1 /\ st[1] \in {"write_coils"} \X FailOutcomes)
                      => (Len(st) = 1 /\ ~c.ok)
                /\ (multiAck /\ ~readSame) => (Len(st) = 3 /\ st[3][1] = "write_coil")
                /\ (multiAck /\ readSame) => Len(st) = 2

\* The verifying read failed and the acknowledged fallback made the call succeed.
C13_Witness ==
    \E c \in LastCalls :
        /\ c.op = "write_m_coil" /\ c.ok
        /\ Steps(c) = << <<"write_coils", "ok">>, <<"read_coils", "raise">>, <<"write_coil", "ok">> >>

\* C14: a read or write call leaves self.connected and self.client as they
\* were unless it connects lazily: started connected, it makes no connect
\* attempt and leaves the state unchanged whatever its transactions do; started
\* disconnected, the state it leaves is the one its connect attempt set.
C14_FailedTransactionKeepsState ==
    \A c \in LastCalls :
        (c.op \in ReadOps \cup WriteOps /\ Len(last.calls) = 1) =>
            IF c.pre.connected
            THEN last.s = c.pre /\ EventsOf(c, "connect") = {}
            ELSE /\ last.s.connected = (c.ev[1].out = "ok")
                 /\ last.s.client = (IF c.ev[1].out = "ok" THEN "open" ELSE "closed")

\* A write whose transaction raised, the interface connected before and after.
C14_Witness ==
    \E c \in LastCalls :
        /\ c.op = "write_d_register" /\ c.pre.connected /\ ~c.ok
        /\ \E i \in DOMAIN c.ev : c.ev[i].fn = "write_register" /\ c.ev[i].out = "raise"
        /\ last.s = c.pre /\ connected

\* A snapshot carries data for at least one region.
HasData(data) ==
    \/ DOMAIN data.d_registers # {} \/ DOMAIN data.m_coils # {}
    \/ DOMAIN data.x_inputs # {} \/ DOMAIN data.y_outputs # {}

\* C15 (as claimed): the connection flag of a snapshot is self.connected as
\* get_all_status returns (the state the following block read starts from), and
\* a snapshot with data for some region has the flag true.
C15_SnapshotFlagCurrent ==
    last.route \in StatusRoutes =>
        LET snap == last.calls[1]
            atReturn == last.calls[2].pre
        IN  /\ snap.data.connected = atReturn.connected
            /\ HasData(snap.data) => snap.data.connected

\* C12 (as claimed): with every transaction atomic and the device applying
\* every write, a write_m_coil call that runs beside another on the same offset
\* ends as it does alone: its verifying read returned its requested state, it
\* returns success, and it issued no fallback write.
C12_ConcurrentAsAlone ==
    \A t \in Handlers :
        (conc.h[t].pc = "done" /\ conc.h[t].wrote) =>
            /\ conc.h[t].verify.ok /\ conc.h[t].verify.bit = conc.h[t].state
            /\ conc.h[t].ret
            /\ conc.h[t].fallbacks = 0

====
